---- MODULE Spec2Model ----
(***************************************************************************)
(* layerConvDWBNRelu9: the tile loop of a depthwise convolution layer      *)
(* (applications/MobileNetV1/DORY_network/src/layerConvDWBNRelu9.c).       *)
(* Every core of the cluster runs the same function; the cores meet at     *)
(* pi_cl_team_barrier and share the L1 scratchpad and the cluster DMA.     *)
(* Addresses are byte offsets relative to l1_buffer (loc) and to the L2    *)
(* tensor a transfer reads or writes (ext).                                *)
(***************************************************************************)
EXTENDS Integers, Sequences, FiniteSets, TLC

\* Number of cores of the cluster that run the layer.
NumCores == 2

Cores == 0 .. (NumCores - 1)

\* Tile grid of this layer: for(iter=0; iter<8*1*1; iter++)
TILES_NOF == 8
TILES_H == 1
TILES_W == 1
N_TILES == TILES_NOF * TILES_H * TILES_W

\* L1 scratchpad offsets and slot sizes
L1_X == 0
L1_Y == 16388
L1_W == 32776
L1_K == 33356
L1_LAMBDA == 33616
X_SLOT == 8192
Y_SLOT == 8192
W_SLOT == 288
ACT_SLOT == 128
\* L2 offsets of k and lambda behind the weights
L2_K == 2304
L2_LAMBDA == 3328
\* im2col = l1_buffer + 33896: start of the kernel workspace
L1_IM2COL == 33896

VARIABLES
  pc,            \* position of each core in layerConvDWBNRelu9
  iter,
  _i_nof_load, _i_nif_load, _i_h_load, _i_w_load,
  _i_nof_exec, _i_nif_exec, _i_h_exec, _i_w_exec,
  db_state_x, db_state_W, db_state_y,
  db_x, db_W, db_act, db_y,
  exec_db_x, exec_db_W, exec_db_act,
  p_t, p_b, p_l, p_r,
  copy_k, copy_lambda,   \* the pi_cl_dma_copy_t handles of each core
  inflight,      \* destinations of the transfers the DMA has not finished
  trace          \* per core, the transfers, waits, barriers and kernel calls so far

loadIdx == <<_i_nof_load, _i_nif_load, _i_h_load, _i_w_load>>
execIdx == <<_i_nof_exec, _i_nif_exec, _i_h_exec, _i_w_exec>>
dbState == <<db_state_x, db_state_W, db_state_y>>
dbOffs == <<db_x, db_W, db_act, db_y, exec_db_x, exec_db_W, exec_db_act>>
pads == <<p_t, p_b, p_l, p_r>>
copies == <<copy_k, copy_lambda>>
locals == <<iter, loadIdx, execIdx, dbState, dbOffs, pads>>
vars == <<pc, locals, copies, inflight, trace>>

----------------------------------------------------------------------------
\* Pure helpers

\* C truth value of !v
Not(v) == IF v = 0 THEN 1 ELSE 0

\* the load offset skips a slot
LoadOffset_twoSlots(state, size) == IF Not(state) # 0 THEN size + size ELSE 0

\* db_x = !db_state_x ? 8192 : 0 (and db_W, db_act, db_y alike)
LoadOffset(state, size) == IF Not(state) # 0 THEN size ELSE 0

\* exec offset computed with the load offset's negation
ExecOffset_sameAsLoad(state, size) == IF Not(state) # 0 THEN size ELSE 0

\* exec_db_x = db_state_x ? 8192 : 0 (and exec_db_W, exec_db_act alike)
ExecOffset(state, size) == IF state # 0 THEN size ELSE 0

\* the input parity is never flipped
FlipX_none(state) == state

\* db_state_x = ! db_state_x
FlipX(state) == Not(state)

\* the load indices compared with themselves
WeightChanged_selfCompare(nifl, nife, nofl, nofe) == nifl # nifl \/ nofl # nofl

\* _i_nif_load!=_i_nif_exec || _i_nof_load!=_i_nof_exec
WeightChanged(nifl, nife, nofl, nofe) == nifl # nife \/ nofl # nofe

\* the last tile reads ahead as well: iter<8*1*1
NotLastTile_offByOne(it) == it < N_TILES

\* iter<8*1*1-1
NotLastTile(it) == it < N_TILES - 1

\* the wait guard compares the load indices with themselves
NeedsWait_selfCompare(c, nifl, nife, nofl, nofe) == c = 0 /\ (nifl # nifl \/ nofl # nofl)

\* pi_core_id()==0 && (_i_nif_load!=_i_nif_exec || _i_nof_load!=_i_nof_exec)
NeedsWait(c, nifl, nife, nofl, nofe) == c = 0 /\ (nifl # nife \/ nofl # nofe)

\* every core takes the leader branch
IsLeader_everyCore(c) == c >= 0

\* pi_core_id()==0
IsLeader(c) == c = 0

\* the kernel is not followed by a barrier
AfterKernel_noBarrier == "kl_wait"

\* pi_cl_team_barrier(0) right after pulp_nn_depthwise_generic
AfterKernel == "bar_b"

\* the loop runs one tile short
N_ITER_short == N_TILES - 1

\* for(iter=0; iter<8*1*1; iter++)
N_ITER == N_TILES

\* the write-back reads the other output slot
WbLoc_otherSlot(dby) == L1_Y + (Y_SLOT - dby)

\* (l1_buffer + 16388) + db_y: source of the output write-back
WbLoc(dby) == L1_Y + dby

\* if (_i_h_exec == 0) p_t = 1;   if (_i_w_exec == 0) p_l = 1;
PadFirst(i) == IF i = 0 THEN 1 ELSE 0
\* bottom padding tested against the grid size instead of the last index
PadBottom_offByOne(h) == IF h = TILES_H THEN 1 ELSE 0

\* if (_i_h_exec == 1-1) p_b = 1;
PadBottom(h) == IF h = TILES_H - 1 THEN 1 ELSE 0
\* if (_i_w_exec == 1-1) p_r = 1;
PadRight(w) == IF w = TILES_W - 1 THEN 1 ELSE 0

\* k is always read from channel block 0
KExt_block0(nof) == L2_K + 128 * 0

\* copy_k.ext = l2_W+2304 + 128*_i_nof_load
KExt(nof) == L2_K + 128 * nof
\* copy_lambda.ext = l2_W+3328 + 128*_i_nof_load
LambdaExt(nof) == L2_LAMBDA + 128 * nof

\* the exec indices are never advanced
UpdatePrev_stale(load, exec) == exec

\* _i_nof_exec = _i_nof_load (and the other three indices)
UpdatePrev(load, exec) == load

\* dory_get_tile_3d: byte offset of tile (i,j,k) from the tensor's base
GetTile3d(i, j, k, size_i, size_j, size_k, stride_j, stride_k, overlap_i, overlap_j, overlap_k, offset_i, offset_j, offset_k, data_size) ==
    ((i * (size_i - overlap_i) - offset_i) * stride_j * stride_k * data_size) \div 8
  + ((j * (size_j - overlap_j) - offset_j) * stride_k * data_size) \div 8
  + ((k * (size_k - overlap_k) - offset_k) * data_size) \div 8

----------------------------------------------------------------------------
\* DMA and trace bookkeeping

\* A transfer a core submitted and may wait for.
Xfer(role, c, loc) == [role |-> role, core |-> c, loc |-> loc]

\* The input tile transfer into the slot at loc: every core submits its share of it
\* and none waits for it, so the shares are kept as one entry (core -1) that stays
\* until the whole tile has arrived.
XferX(loc) == [role |-> "x", core |-> -1, loc |-> loc]

Ev(op, it, ext, loc, size, tile) ==
  [op |-> op, iter |-> it, ext |-> ext, loc |-> loc, size |-> size, tile |-> tile]

NoTile == <<0, 0, 0>>
Mark(op, it) == Ev(op, it, 0, 0, 0, NoTile)

Log(c, evs) == trace' = [trace EXCEPT ![c] = @ \o evs]

NoCopy == [ext |-> 0, loc |-> 0, size |-> 0]

BarrierPCs == {"bar0", "bar1", "bar_a", "bar_b", "bar_c"}

AfterBarrier(p) ==
  CASE p = "bar0" -> "pro_x"
    [] p = "bar1" -> "for_init"
    [] p = "bar_a" -> "kernel_call"
    [] p = "bar_b" -> "kl_wait"
    [] p = "bar_c" -> "for_inc"

Goto(c, p) == pc' = [pc EXCEPT ![c] = p]

----------------------------------------------------------------------------
Init ==
  /\ pc = [c \in Cores |-> "pro_kl"]
  /\ iter = [c \in Cores |-> 0]
  /\ _i_nof_load = [c \in Cores |-> 0]
  /\ _i_nif_load = [c \in Cores |-> 0]
  /\ _i_h_load = [c \in Cores |-> 0]
  /\ _i_w_load = [c \in Cores |-> 0]
  /\ _i_nof_exec = [c \in Cores |-> 0]
  /\ _i_nif_exec = [c \in Cores |-> 0]
  /\ _i_h_exec = [c \in Cores |-> 0]
  /\ _i_w_exec = [c \in Cores |-> 0]
  /\ db_state_x = [c \in Cores |-> 0]
  /\ db_state_W = [c \in Cores |-> 0]
  /\ db_state_y = [c \in Cores |-> 1]
  /\ db_x = [c \in Cores |-> 0]
  /\ db_W = [c \in Cores |-> 0]
  /\ db_act = [c \in Cores |-> 0]
  /\ db_y = [c \in Cores |-> 0]
  /\ exec_db_x = [c \in Cores |-> 0]
  /\ exec_db_W = [c \in Cores |-> 0]
  /\ exec_db_act = [c \in Cores |-> 0]
  /\ p_t = [c \in Cores |-> 0]
  /\ p_b = [c \in Cores |-> 0]
  /\ p_l = [c \in Cores |-> 0]
  /\ p_r = [c \in Cores |-> 0]
  /\ copy_k = [c \in Cores |-> NoCopy]
  /\ copy_lambda = [c \in Cores |-> NoCopy]
  /\ inflight = {}
  /\ trace = [c \in Cores |-> <<>>]

----------------------------------------------------------------------------
\* Prologue

\* if(pi_core_id()==0) { ... pi_cl_dma_memcpy(&copy_k); ... pi_cl_dma_memcpy(&copy_lambda);
ProKL(c) ==
  /\ pc[c] = "pro_kl"
  /\ IF IsLeader(c)
       THEN /\ copy_k' = [copy_k EXCEPT ![c] = [ext |-> L2_K, loc |-> L1_K, size |-> 128]]
            /\ copy_lambda' = [copy_lambda EXCEPT ![c] =
                                 [ext |-> L2_LAMBDA, loc |-> L1_LAMBDA, size |-> 128]]
            /\ inflight' = inflight \cup {Xfer("k", c, L1_K), Xfer("lambda", c, L1_LAMBDA)}
            /\ Log(c, <<Ev("k", -1, L2_K, L1_K, 128, NoTile),
                        Ev("lambda", -1, L2_LAMBDA, L1_LAMBDA, 128, NoTile)>>)
            /\ Goto(c, "pro_kl_wait")
       ELSE /\ Goto(c, "bar0")
            /\ UNCHANGED <<copies, inflight, trace>>
  /\ UNCHANGED locals

\* pi_cl_dma_wait(&copy_k); pi_cl_dma_wait(&copy_lambda);
ProKLWait(c) ==
  /\ pc[c] = "pro_kl_wait"
  /\ Xfer("k", c, copy_k[c].loc) \notin inflight
  /\ Xfer("lambda", c, copy_lambda[c].loc) \notin inflight
  /\ Log(c, <<Mark("wait_k", -1), Mark("wait_lambda", -1)>>)
  /\ Goto(c, "bar0")
  /\ UNCHANGED <<locals, copies, inflight>>

\* dory_dma_memcpy_3d_custom_hwc_to_chw(l2_x, (l1_buffer + 0) + 0, 8192, ...)
ProX(c) ==
  /\ pc[c] = "pro_x"
  /\ inflight' = inflight \cup {XferX(L1_X + 0)}
  /\ Log(c, <<Ev("x", -1, 0, L1_X + 0, 8192, <<0, 0, 0>>)>>)
  /\ Goto(c, "pro_W")
  /\ UNCHANGED <<locals, copies>>

\* dory_dma_memcpy_3d_custom_blocking(l2_W, (l1_buffer + 32776) + 0, 288, ...): submit
ProW(c) ==
  /\ pc[c] = "pro_W"
  /\ inflight' = inflight \cup {Xfer("W", c, L1_W + 0)}
  /\ Log(c, <<Ev("W", -1, 0, L1_W + 0, 288, <<0, 0, 0>>)>>)
  /\ Goto(c, "pro_W_wait")
  /\ UNCHANGED <<locals, copies>>

\* ... and its wait for completion
ProWWait(c) ==
  /\ pc[c] = "pro_W_wait"
  /\ Xfer("W", c, L1_W + 0) \notin inflight
  /\ Log(c, <<Mark("wait_W", -1)>>)
  /\ Goto(c, "bar1")
  /\ UNCHANGED <<locals, copies, inflight>>

----------------------------------------------------------------------------
\* pi_cl_team_barrier(0): released when every core of the team has arrived
Barrier ==
  /\ \A c \in Cores : pc[c] \in BarrierPCs
  /\ pc' = [c \in Cores |-> AfterBarrier(pc[c])]
  /\ trace' = [c \in Cores |-> Append(trace[c], Mark(pc[c], iter[c]))]
  /\ UNCHANGED <<locals, copies, inflight>>

\* the DMA finishes a transfer
DmaDone(t) ==
  /\ t \in inflight
  /\ inflight' = inflight \ {t}
  /\ UNCHANGED <<pc, locals, copies, trace>>

----------------------------------------------------------------------------
\* Tile loop

\* Lines 152-176 for core c entering the loop body with iter = it: the odometer
\* advance of the load indices, the double-buffer offsets and the parity updates.
LoopHead(c, it) ==
  LET w1 == _i_w_load[c] + 1
      wrapW == w1 = TILES_W
      h1 == IF wrapW THEN _i_h_load[c] + 1 ELSE _i_h_load[c]
      wrapH == wrapW /\ h1 = TILES_H
      w2 == IF wrapW THEN 0 ELSE w1
      h2 == IF wrapH THEN 0 ELSE h1
      nif2 == IF wrapH THEN _i_nif_load[c] + 1 ELSE _i_nif_load[c]
      nof2 == IF wrapH THEN _i_nof_load[c] + 1 ELSE _i_nof_load[c]
  IN /\ _i_w_load' = [_i_w_load EXCEPT ![c] = w2]
     /\ _i_h_load' = [_i_h_load EXCEPT ![c] = h2]
     /\ _i_nif_load' = [_i_nif_load EXCEPT ![c] = nif2]
     /\ _i_nof_load' = [_i_nof_load EXCEPT ![c] = nof2]
     /\ db_x' = [db_x EXCEPT ![c] = LoadOffset(db_state_x[c], X_SLOT)]
     /\ db_W' = [db_W EXCEPT ![c] = LoadOffset(db_state_W[c], W_SLOT)]
     /\ db_y' = [db_y EXCEPT ![c] = LoadOffset(db_state_y[c], Y_SLOT)]
     /\ db_act' = [db_act EXCEPT ![c] = LoadOffset(db_state_W[c], ACT_SLOT)]
     /\ exec_db_x' = [exec_db_x EXCEPT ![c] = ExecOffset(db_state_x[c], X_SLOT)]
     /\ db_state_x' = [db_state_x EXCEPT ![c] = FlipX(db_state_x[c])]
     /\ exec_db_W' = [exec_db_W EXCEPT ![c] = ExecOffset(db_state_W[c], W_SLOT)]
     /\ exec_db_act' = [exec_db_act EXCEPT ![c] = ExecOffset(db_state_W[c], ACT_SLOT)]
     /\ db_state_W' = [db_state_W EXCEPT ![c] =
                         IF WeightChanged(nif2, _i_nif_exec[c], nof2, _i_nof_exec[c])
                           THEN Not(db_state_W[c]) ELSE db_state_W[c]]
     /\ Goto(c, IF NotLastTile(it) THEN "pf_x" ELSE "ptrs")
     /\ UNCHANGED <<db_state_y, execIdx, pads, copies, inflight, trace>>

\* for(iter=0; iter<8*1*1; ...) : first entry
ForInit(c) ==
  /\ pc[c] = "for_init"
  /\ iter' = [iter EXCEPT ![c] = 0]
  /\ LoopHead(c, 0)

\* for(...; iter<8*1*1; iter++) : next iteration, or leave the loop and return
ForInc(c) ==
  /\ pc[c] = "for_inc"
  /\ iter' = [iter EXCEPT ![c] = @ + 1]
  /\ IF iter[c] + 1 < N_ITER
       THEN LoopHead(c, iter[c] + 1)
       ELSE /\ Goto(c, "done")
            /\ UNCHANGED <<loadIdx, execIdx, dbState, dbOffs, pads, copies, inflight, trace>>

\* Lines 179-211: dory_dma_memcpy_3d_custom_hwc_to_chw of the next input tile
PrefetchX(c) ==
  /\ pc[c] = "pf_x"
  /\ LET pad_offset_h == IF _i_h_load[c] > 0 THEN 1 ELSE 0
         pad_offset_w == IF _i_w_load[c] > 0 THEN 1 ELSE 0
         ext == GetTile3d(_i_h_load[c], _i_w_load[c], _i_nif_load[c], 16, 16, 32, 16, 256,
                          2, 2, 0, pad_offset_h, pad_offset_w, 0, 8)
         x_tile_size_byte == (32 * 16 * 16 * 8) \div 8
     IN /\ inflight' = inflight \cup {XferX(L1_X + db_x[c])}
        /\ Log(c, <<Ev("x", iter[c], ext, L1_X + db_x[c], x_tile_size_byte,
                       <<_i_nif_load[c], _i_h_load[c], _i_w_load[c]>>)>>)
  /\ Goto(c, IF WeightChanged(_i_nif_load[c], _i_nif_exec[c], _i_nof_load[c], _i_nof_exec[c])
               THEN "pf_W" ELSE "ptrs")
  /\ UNCHANGED <<locals, copies>>

\* Lines 213-225: dory_dma_memcpy_3d_custom_blocking of the next weight tile: submit
ReloadW(c) ==
  /\ pc[c] = "pf_W"
  /\ LET ext == GetTile3d(_i_nof_load[c], 0, 0, 32, 3 * 3, 1, 3 * 3, 1, 0, 0, 0, 0, 0, 0, 8)
         W_tile_size_byte == 32 * 1 * 3 * 3
     IN /\ inflight' = inflight \cup {Xfer("W", c, L1_W + db_W[c])}
        /\ Log(c, <<Ev("W", iter[c], ext, L1_W + db_W[c], W_tile_size_byte,
                       <<_i_nof_load[c], 0, 0>>)>>)
  /\ Goto(c, "pf_W_wait")
  /\ UNCHANGED <<locals, copies>>

\* ... and its wait for completion
ReloadWWait(c) ==
  /\ pc[c] = "pf_W_wait"
  /\ Xfer("W", c, L1_W + db_W[c]) \notin inflight
  /\ Log(c, <<Mark("wait_W", iter[c])>>)
  /\ Goto(c, IF IsLeader(c) THEN "pf_kl" ELSE "ptrs")
  /\ UNCHANGED <<locals, copies, inflight>>

\* Lines 226-242: core 0 submits the k and lambda of the next channel block
ReloadKL(c) ==
  /\ pc[c] = "pf_kl"
  /\ LET W_tile_size_nof == 32
         ck == [ext |-> KExt(_i_nof_load[c]), loc |-> L1_K + db_act[c],
                size |-> W_tile_size_nof * 4]
         cl == [ext |-> LambdaExt(_i_nof_load[c]), loc |-> L1_LAMBDA + db_act[c],
                size |-> W_tile_size_nof * 4]
     IN /\ copy_k' = [copy_k EXCEPT ![c] = ck]
        /\ copy_lambda' = [copy_lambda EXCEPT ![c] = cl]
        /\ inflight' = inflight \cup {Xfer("k", c, ck.loc), Xfer("lambda", c, cl.loc)}
        /\ Log(c, <<Ev("k", iter[c], ck.ext, ck.loc, ck.size, <<_i_nof_load[c], 0, 0>>),
                    Ev("lambda", iter[c], cl.ext, cl.loc, cl.size, <<_i_nof_load[c], 0, 0>>)>>)
  /\ Goto(c, "ptrs")
  /\ UNCHANGED locals

\* Lines 246-272: exec pointers and the four padding flags, up to the first barrier
Pointers(c) ==
  /\ pc[c] = "ptrs"
  /\ p_t' = [p_t EXCEPT ![c] = PadFirst(_i_h_exec[c])]
  /\ p_l' = [p_l EXCEPT ![c] = PadFirst(_i_w_exec[c])]
  /\ p_b' = [p_b EXCEPT ![c] = PadBottom(_i_h_exec[c])]
  /\ p_r' = [p_r EXCEPT ![c] = PadRight(_i_w_exec[c])]
  /\ Goto(c, "bar_a")
  /\ UNCHANGED <<iter, loadIdx, execIdx, dbState, dbOffs, copies, inflight, trace>>

\* Line 276: pulp_nn_depthwise_generic is entered; it reads x, W, k, lambda and writes y.
\* Its trace entry keeps the x pointer in ext and the y pointer in loc.
KernelCall(c) ==
  /\ pc[c] = "kernel_call"
  /\ Log(c, <<Ev("kernel", iter[c], L1_X + exec_db_x[c], L1_Y + db_y[c], 0,
                 <<_i_nof_exec[c], _i_h_exec[c], _i_w_exec[c]>>)>>)
  /\ Goto(c, "kernel")
  /\ UNCHANGED <<locals, copies, inflight>>

\* ... and returns
KernelReturn(c) ==
  /\ pc[c] = "kernel"
  /\ Goto(c, AfterKernel)
  /\ UNCHANGED <<locals, copies, inflight, trace>>

\* Lines 309-316: core 0 waits for the k and lambda it submitted in this iteration
WaitKL(c) ==
  /\ pc[c] = "kl_wait"
  /\ IF NotLastTile(iter[c])
        /\ NeedsWait(c, _i_nif_load[c], _i_nif_exec[c], _i_nof_load[c], _i_nof_exec[c])
       THEN /\ Xfer("k", c, copy_k[c].loc) \notin inflight
            /\ Xfer("lambda", c, copy_lambda[c].loc) \notin inflight
            /\ Log(c, <<Mark("wait_k", iter[c]), Mark("wait_lambda", iter[c])>>)
       ELSE UNCHANGED trace
  /\ Goto(c, "wb")
  /\ UNCHANGED <<locals, copies, inflight>>

\* Lines 317-327: dory_dma_memcpy_3d_custom_blocking of the output tile to L2: submit
WriteBack(c) ==
  /\ pc[c] = "wb"
  /\ LET ext == GetTile3d(_i_h_exec[c], _i_w_exec[c], _i_nof_exec[c], 16, 16, 32, 16, 256,
                          0, 0, 0, 0, 0, 0, 8)
         y_tile_size_byte == (32 * 16 * 16 * 8) \div 8
     IN /\ inflight' = inflight \cup {Xfer("y", c, WbLoc(db_y[c]))}
        /\ Log(c, <<Ev("y", iter[c], ext, WbLoc(db_y[c]), y_tile_size_byte,
                       <<_i_nof_exec[c], _i_h_exec[c], _i_w_exec[c]>>)>>)
  /\ Goto(c, "wb_wait")
  /\ UNCHANGED <<locals, copies>>

\* ... its wait for completion, then lines 329-332: update prev iterators
WriteBackWait(c) ==
  /\ pc[c] = "wb_wait"
  /\ Xfer("y", c, WbLoc(db_y[c])) \notin inflight
  /\ Log(c, <<Mark("wait_y", iter[c])>>)
  /\ _i_nof_exec' = [_i_nof_exec EXCEPT ![c] = UpdatePrev(_i_nof_load[c], @)]
  /\ _i_nif_exec' = [_i_nif_exec EXCEPT ![c] = UpdatePrev(_i_nif_load[c], @)]
  /\ _i_h_exec' = [_i_h_exec EXCEPT ![c] = UpdatePrev(_i_h_load[c], @)]
  /\ _i_w_exec' = [_i_w_exec EXCEPT ![c] = UpdatePrev(_i_w_load[c], @)]
  /\ Goto(c, "bar_c")
  /\ UNCHANGED <<iter, loadIdx, dbState, dbOffs, pads, copies, inflight>>

----------------------------------------------------------------------------
Step(c) ==
  \/ ProKL(c) \/ ProKLWait(c) \/ ProX(c) \/ ProW(c) \/ ProWWait(c)
  \/ ForInit(c) \/ ForInc(c)
  \/ PrefetchX(c) \/ ReloadW(c) \/ ReloadWWait(c) \/ ReloadKL(c)
  \/ Pointers(c) \/ KernelCall(c) \/ KernelReturn(c)
  \/ WaitKL(c) \/ WriteBack(c) \/ WriteBackWait(c)

Next ==
  \/ \E c \in Cores : Step(c)
  \/ Barrier
  \/ \E t \in inflight : DmaDone(t)

Spec == Init /\ [][Next]_vars

\* The cores keep running (a kernel call returns), the barrier releases the team once
\* all have arrived, and the DMA finishes every transfer it was given.
FairSpec ==
  /\ Spec
  /\ \A c \in Cores : WF_vars(Step(c))
  /\ WF_vars(Barrier)
  /\ WF_vars(\E t \in inflight : DmaDone(t))

----------------------------------------------------------------------------
\* Properties

\* The entries of core c's trace with the given op, in order
Sel(c, op) == SelectSeq(trace[c], LAMBDA e : e.op = op)

\* The entries of core c's trace with the given op that were made inside the loop
SelLoop(c, op) == SelectSeq(trace[c], LAMBDA e : e.op = op /\ e.iter >= 0)

Grid == (0 .. (TILES_NOF - 1)) \X (0 .. (TILES_H - 1)) \X (0 .. (TILES_W - 1))

\* Positions of a core inside the loop body once the offsets of lines 167-176 are set
BodyPCs == {"pf_x", "pf_W", "pf_W_wait", "pf_kl", "ptrs", "bar_a", "kernel_call",
            "kernel", "bar_b", "kl_wait", "wb", "wb_wait", "bar_c"}

\* Positions between the end of the read-ahead of an iteration and the next loop test
PastPrefetchPCs == {"ptrs", "bar_a", "kernel_call", "kernel", "bar_b", "kl_wait",
                    "wb", "wb_wait", "bar_c", "for_inc"}

\* C1: on every core the output write-backs are issued one per iteration, in
\* iteration order, to pairwise distinct tile coordinates (_i_nof_exec, _i_h_exec,
\* _i_w_exec); when the layer returns exactly N_TILES were issued and their
\* coordinates are the whole grid {0..7} x {0} x {0}.
C1_WriteBackCoversGrid ==
  \A c \in Cores :
    LET wb == Sel(c, "y")
    IN /\ \A i \in DOMAIN wb : wb[i].iter = i - 1
       /\ \A i, j \in DOMAIN wb : i # j => wb[i].tile # wb[j].tile /\ wb[i].ext # wb[j].ext
       /\ pc[c] \in {"wb_wait", "bar_c", "for_inc"} => Len(wb) = iter[c] + 1
       /\ pc[c] = "done" =>
            /\ Len(wb) = N_TILES
            /\ {wb[i].tile : i \in DOMAIN wb} = Grid

C1_Witness ==
  \A c \in Cores : pc[c] = "done" /\ Len(Sel(c, "y")) = 8

\* C2: inside the loop every core issues exactly one input prefetch in each
\* iteration iter < N_TILES-1, of the next tile, and the last iteration issues no
\* input, weight, k or lambda transfer: N_TILES-1 prefetches in all.
C2_PrefetchCount ==
  \A c \in Cores :
    LET pf == SelLoop(c, "x")
    IN /\ \A i \in DOMAIN pf : pf[i].iter = i - 1 /\ pf[i].tile = <<i, 0, 0>>
       /\ \A j \in DOMAIN trace[c] :
            trace[c][j].op \in {"x", "W", "k", "lambda"} => trace[c][j].iter < N_TILES - 1
       /\ pc[c] \in PastPrefetchPCs =>
            Len(pf) = IF iter[c] < N_TILES - 1 THEN iter[c] + 1 ELSE N_TILES - 1
       /\ pc[c] = "done" => Len(pf) = N_TILES - 1

C2_Witness ==
  \E c \in Cores : pc[c] = "kernel" /\ iter[c] = 7 /\ Len(SelLoop(c, "x")) = 7

\* C3: counting the prologue, the weight tile (on every core) and the k and lambda
\* arrays (on core 0) are transferred once per channel block, in block order, the
\* transfer for block b reading the source of block b; at return all 8 blocks
\* have been loaded once.
C3_WeightsOncePerBlock ==
  /\ \A c \in Cores :
       LET ws == Sel(c, "W")
       IN /\ \A i \in DOMAIN ws : ws[i].ext = W_SLOT * (i - 1) /\ ws[i].size = W_SLOT
          /\ pc[c] = "done" => Len(ws) = TILES_NOF
  /\ LET ks == Sel(0, "k")
         ls == Sel(0, "lambda")
     IN /\ \A i \in DOMAIN ks : ks[i].ext = L2_K + ACT_SLOT * (i - 1) /\ ks[i].size = ACT_SLOT
        /\ \A i \in DOMAIN ls :
             ls[i].ext = L2_LAMBDA + ACT_SLOT * (i - 1) /\ ls[i].size = ACT_SLOT
        /\ pc[0] = "done" => Len(ks) = TILES_NOF /\ Len(ls) = TILES_NOF

C3_Witness ==
  /\ \A c \in Cores : pc[c] = "done" /\ Len(Sel(c, "W")) = 8
  /\ Len(Sel(0, "k")) = 8
  /\ Sel(0, "k")[8].ext = 2304 + 128 * 7

\* C4: when the kernel is invoked the padding flags are a function of the exec tile
\* only (first / last index of the height and width grids), and since both grids
\* have size 1 all four flags are 1 in every iteration.
C4_PaddingFlags ==
  \A c \in Cores :
    pc[c] \in {"bar_a", "kernel_call", "kernel"} =>
      /\ p_t[c] = (IF _i_h_exec[c] = 0 THEN 1 ELSE 0)
      /\ p_b[c] = (IF _i_h_exec[c] = TILES_H - 1 THEN 1 ELSE 0)
      /\ p_l[c] = (IF _i_w_exec[c] = 0 THEN 1 ELSE 0)
      /\ p_r[c] = (IF _i_w_exec[c] = TILES_W - 1 THEN 1 ELSE 0)
      /\ <<p_t[c], p_b[c], p_l[c], p_r[c]>> = <<1, 1, 1, 1>>

C4_Witness ==
  \E c \in Cores : pc[c] = "kernel" /\ iter[c] = 7 /\ p_b[c] = 1 /\ _i_nof_exec[c] = 7

\* The loc of the only transfer with this op that core c issued in iteration it
\* (-1 is the prologue), as a set: empty if there is none.
LocsOf(c, op, it) ==
  {trace[c][j].loc : j \in {j \in DOMAIN trace[c] : trace[c][j].op = op /\ trace[c][j].iter = it}}

\* C5: the slots the kernel of iteration i reads (input, weight, k, lambda) are the
\* slots written by the transfers issued in iteration i-1 (the prologue for i = 0).
C5_ExecReadsLastLoaded ==
  \A c \in Cores :
    pc[c] \in {"kernel_call", "kernel"} =>
      /\ LocsOf(c, "x", iter[c] - 1) = {L1_X + exec_db_x[c]}
      /\ LocsOf(c, "W", iter[c] - 1) = {L1_W + exec_db_W[c]}
      /\ LocsOf(0, "k", iter[c] - 1) = {L1_K + exec_db_act[c]}
      /\ LocsOf(0, "lambda", iter[c] - 1) = {L1_LAMBDA + exec_db_act[c]}

C5_Witness ==
  \E c \in Cores : pc[c] = "kernel" /\ iter[c] = 3 /\ exec_db_x[c] = 8192
                   /\ exec_db_W[c] = 288 /\ exec_db_act[c] = 128

Kernels(c) == Sel(c, "kernel")

\* C7: from each kernel call to the next the input slot and the output slot both
\* change.
C7_InputOutputFlip ==
  \A c \in Cores :
    \A i \in DOMAIN Kernels(c) :
      i + 1 \in DOMAIN Kernels(c) =>
        /\ Kernels(c)[i + 1].ext # Kernels(c)[i].ext
        /\ Kernels(c)[i + 1].loc # Kernels(c)[i].loc

\* The entries a step appends to core c's trace
NewEvents(c) == SubSeq(trace'[c], Len(trace[c]) + 1, Len(trace'[c]))

\* C8: a step changes db_state_W exactly when it starts an iteration whose advanced
\* load pair (_i_nof_load, _i_nif_load) differs from the exec pair, and a weight, k
\* or lambda transfer is issued in the loop only while the two pairs differ.
C8_WeightParityFlip ==
  [][\A c \in Cores :
       /\ (db_state_W'[c] # db_state_W[c]) <=>
            /\ pc[c] \in {"for_init", "for_inc"}
            /\ pc'[c] \in {"pf_x", "ptrs"}
            /\ (_i_nif_load'[c] # _i_nif_exec[c] \/ _i_nof_load'[c] # _i_nof_exec[c])
       /\ (\E j \in DOMAIN NewEvents(c) :
             NewEvents(c)[j].op \in {"W", "k", "lambda"} /\ NewEvents(c)[j].iter >= 0)
            => (_i_nif_load[c] # _i_nif_exec[c] \/ _i_nof_load[c] # _i_nof_exec[c])
    ]_vars

C8_Witness ==
  \E c \in Cores : /\ pc[c] = "pf_W_wait" /\ iter[c] = 1
                   /\ db_state_W[c] = 0
                   /\ _i_nof_load[c] = 2 /\ _i_nof_exec[c] = 1

\* C9: in every iteration the load offset and the exec offset of the input, weight
\* and requantization roles differ, and no transfer issued in the iteration (by the
\* core itself, or by core 0 for k and lambda) targets a slot the kernel of that
\* iteration reads.
C9_LoadExecDisjoint ==
  \A c \in Cores :
    pc[c] \in BodyPCs =>
      /\ db_x[c] # exec_db_x[c]
      /\ db_W[c] # exec_db_W[c]
      /\ db_act[c] # exec_db_act[c]
      /\ L1_X + exec_db_x[c] \notin LocsOf(c, "x", iter[c])
      /\ L1_W + exec_db_W[c] \notin LocsOf(c, "W", iter[c])
      /\ L1_K + exec_db_act[c] \notin LocsOf(0, "k", iter[c])
      /\ L1_LAMBDA + exec_db_act[c] \notin LocsOf(0, "lambda", iter[c])

C9_Witness ==
  \E c \in Cores : /\ pc[c] = "kernel" /\ iter[c] = 2
                   /\ LocsOf(c, "x", 2) = {8192} /\ exec_db_x[c] = 0
                   /\ LocsOf(0, "k", 2) = {L1_K + 128} /\ exec_db_act[c] = 0

\* Whether core c's trace has an entry (op, it) strictly between positions lo and hi
Between(c, op, it, lo, hi) ==
  \E n \in DOMAIN trace[c] :
    lo < n /\ n < hi /\ trace[c][n].op = op /\ trace[c][n].iter = it

\* C10 as stated: when a core that issued k and lambda in an iteration calls the
\* kernel of that iteration, it has already waited for them, after the first
\* barrier of the iteration.
C10_WaitBeforeKernel ==
  \A c \in Cores :
    \A j \in DOMAIN trace[c] :
      (trace[c][j].op = "kernel" /\ Between(c, "k", trace[c][j].iter, 0, j)) =>
        \E n \in DOMAIN trace[c] :
          /\ n < j
          /\ trace[c][n].op = "wait_k" /\ trace[c][n].iter = trace[c][j].iter
          /\ Between(c, "wait_lambda", trace[c][j].iter, n, j)
          /\ Between(c, "bar_a", trace[c][j].iter, 0, n)

\* C10 amended: the wait for the k and lambda issued in an iteration comes after the
\* kernel call and the second barrier of that iteration and before its output
\* write-back is issued; a wait inside the loop is always for transfers issued in
\* the same iteration.
C10_WaitAfterKernelBeforeWriteBack ==
  \A c \in Cores :
    \A j \in DOMAIN trace[c] :
      LET e == trace[c][j]
      IN /\ (e.op = "y" /\ Between(c, "k", e.iter, 0, j)) =>
              \E n \in DOMAIN trace[c] :
                /\ n < j
                /\ trace[c][n].op = "wait_k" /\ trace[c][n].iter = e.iter
                /\ Between(c, "wait_lambda", e.iter, n, j)
                /\ Between(c, "bar_b", e.iter, 0, n)
                /\ Between(c, "kernel", e.iter, 0, n)
                /\ ~Between(c, "wait_k", e.iter, 0, n)
         /\ (e.op \in {"wait_k", "wait_lambda"} /\ e.iter >= 0) =>
              /\ Between(c, "k", e.iter, 0, j)
              /\ Between(c, "lambda", e.iter, 0, j)
              /\ Between(c, "bar_b", e.iter, 0, j)

C10_Witness ==
  /\ pc[0] = "wb_wait" /\ iter[0] = 2
  /\ Between(0, "k", 2, 0, Len(trace[0]))
  /\ Between(0, "wait_k", 2, 0, Len(trace[0]))

\* Whether core c has returned from the kernel call of iteration it
FinishedKernel(c, it) ==
  \/ iter[c] > it
  \/ iter[c] = it /\ pc[c] \in {"bar_b", "kl_wait", "wb", "wb_wait", "bar_c", "for_inc"}

TransferOps == {"x", "W", "k", "lambda", "y"}

\* C11: once any core has issued the write-back of iteration i, or any input,
\* weight, k or lambda transfer of iteration i+1 (these target the slots the kernel
\* of iteration i read), every core has returned from the kernel of iteration i.
C11_ComputeDoneBeforeReuse ==
  \A c \in Cores :
    \A j \in DOMAIN trace[c] :
      LET e == trace[c][j]
      IN /\ e.op = "y" => \A c2 \in Cores : FinishedKernel(c2, e.iter)
         /\ (e.op \in {"x", "W", "k", "lambda"} /\ e.iter >= 1) =>
              \A c2 \in Cores : FinishedKernel(c2, e.iter - 1)

C11_Witness ==
  \E c, c2 \in Cores :
    /\ c # c2
    /\ pc[c] = "pf_W" /\ iter[c] = 4
    /\ LocsOf(c, "x", 4) = {L1_X + 8192}
    /\ pc[c2] = "for_inc" /\ iter[c2] = 3
    /\ exec_db_x[c2] = 8192
    /\ LocsOf(c2, "y", 3) = {L1_Y}

\* How many entries (op, it) core c's trace holds
CountOf(c, op, it) ==
  Cardinality({j \in DOMAIN trace[c] : trace[c][j].op = op /\ trace[c][j].iter = it})

\* C12 as stated: no core other than core 0 issues a weight, k or lambda transfer,
\* in the prologue or in the loop.
C12_OnlyCore0IssuesWeightsAndRequant ==
  \A c \in Cores \ {0} :
    \A j \in DOMAIN trace[c] : trace[c][j].op \notin {"W", "k", "lambda"}

\* C12 amended: the k and lambda transfers of the prologue and of every non-final
\* iteration are issued once, by core 0 and by no other core; the weight tile
\* transfer is called once by every core, in the prologue and in every non-final
\* iteration.
C12_OnlyCore0IssuesRequant ==
  /\ \A c \in Cores \ {0} :
       \A j \in DOMAIN trace[c] : trace[c][j].op \notin {"k", "lambda"}
  /\ \A c \in Cores :
       /\ \A it \in -1 .. (N_TILES - 1) :
            /\ CountOf(c, "W", it) <= 1
            /\ CountOf(c, "k", it) <= 1
            /\ CountOf(c, "lambda", it) <= 1
       /\ pc[c] \in PastPrefetchPCs =>
            /\ CountOf(c, "W", -1) = 1
            /\ iter[c] < N_TILES - 1 => CountOf(c, "W", iter[c]) = 1
  /\ pc[0] \in PastPrefetchPCs =>
       /\ CountOf(0, "k", -1) = 1 /\ CountOf(0, "lambda", -1) = 1
       /\ iter[0] < N_TILES - 1 =>
            CountOf(0, "k", iter[0]) = 1 /\ CountOf(0, "lambda", iter[0]) = 1

C12_Witness ==
  \E c \in Cores \ {0} :
    /\ pc[c] = "kernel" /\ iter[c] = 2
    /\ CountOf(c, "W", 2) = 1 /\ CountOf(c, "k", 2) = 0
    /\ CountOf(0, "k", 2) = 1 /\ CountOf(0, "lambda", 2) = 1

\* C13: while any core is in (or about to enter) the kernel, no k or lambda
\* transfer into the slot that kernel reads is in flight, although only core 0
\* waits for those transfers.
C13_RequantArrivedBeforeCompute ==
  \A c \in Cores :
    pc[c] \in {"kernel_call", "kernel"} =>
      \A t \in inflight :
        /\ ~(t.role = "k" /\ t.loc = L1_K + exec_db_act[c])
        /\ ~(t.role = "lambda" /\ t.loc = L1_LAMBDA + exec_db_act[c])

C13_Witness ==
  \E c \in Cores \ {0} :
    /\ pc[c] = "kernel" /\ iter[c] = 1 /\ exec_db_act[c] = 128
    /\ LocsOf(0, "k", 0) = {L1_K + 128}
    /\ Xfer("k", 0, L1_K + 0) \in inflight

\* The trace entry that records the wait for a transfer of the given op
WaitOp(op) ==
  CASE op = "x" -> "wait_x"
    [] op = "W" -> "wait_W"
    [] op = "k" -> "wait_k"
    [] op = "lambda" -> "wait_lambda"
    [] op = "y" -> "wait_y"

TileAt(i) == <<i \div (TILES_H * TILES_W), (i \div TILES_W) % TILES_H, i % TILES_W>>

\* C16: from the offsets of an iteration to its write-back the exec coordinate is
\* the iter-th tile of the nested order, with _i_nif_exec = _i_nof_exec, and the
\* load coordinate is the (iter+1)-th; after "update prev iterators" the exec
\* coordinate equals the load coordinate; every kernel call is made for the
\* iter-th tile.
C16_ExecFollowsNestedOrder ==
  \A c \in Cores :
    /\ pc[c] \in BodyPCs \ {"bar_c"} =>
         /\ <<_i_nof_exec[c], _i_h_exec[c], _i_w_exec[c]>> = TileAt(iter[c])
         /\ _i_nif_exec[c] = _i_nof_exec[c]
         /\ <<_i_nof_load[c], _i_h_load[c], _i_w_load[c]>> = TileAt(iter[c] + 1)
         /\ _i_nif_load[c] = _i_nof_load[c]
    /\ pc[c] \in {"bar_c", "for_inc"} =>
         /\ <<_i_nof_exec[c], _i_nif_exec[c], _i_h_exec[c], _i_w_exec[c]>>
              = <<_i_nof_load[c], _i_nif_load[c], _i_h_load[c], _i_w_load[c]>>
         /\ <<_i_nof_exec[c], _i_h_exec[c], _i_w_exec[c]>> = TileAt(iter[c] + 1)
    /\ \A i \in DOMAIN Kernels(c) :
         Kernels(c)[i].iter = i - 1 /\ Kernels(c)[i].tile = <<i - 1, 0, 0>>

C16_Witness ==
  \E c \in Cores : /\ pc[c] = "kernel" /\ iter[c] = 5
                   /\ _i_nof_exec[c] = 5 /\ _i_nif_exec[c] = 5
                   /\ _i_nof_load[c] = 6
                   /\ Len(Kernels(c)) = 6

\* The barriers core c has passed, in order
BarrierOps(c) ==
  LET b == SelectSeq(trace[c], LAMBDA e : e.op \in BarrierPCs)
  IN [i \in DOMAIN b |-> <<b[i].op, b[i].iter>>]

\* Two barriers in the prologue, then three in each of the 8 iterations
ExpectedBarriers ==
  [i \in 1 .. (2 + 3 * (TILES_NOF * TILES_H * TILES_W)) |->
     IF i = 1 THEN <<"bar0", 0>>
     ELSE IF i = 2 THEN <<"bar1", 0>>
     ELSE <<(CASE (i - 3) % 3 = 0 -> "bar_a"
               [] (i - 3) % 3 = 1 -> "bar_b"
               [] (i - 3) % 3 = 2 -> "bar_c"), (i - 3) \div 3>>]

\* C17: if the cores keep running, kernel calls return and the DMA finishes every
\* transfer, then every core eventually returns, after exactly 8 iterations and
\* after the same 2 + 3*8 barriers whatever its core index, and stays returned.
C17_AllCoresReturn ==
  <>[](\A c \in Cores :
         /\ pc[c] = "done"
         /\ iter[c] = TILES_NOF * TILES_H * TILES_W
         /\ BarrierOps(c) = ExpectedBarriers)

C17_Witness ==
  \A c \in Cores :
    /\ pc[c] = "done" /\ iter[c] = 8
    /\ Len(BarrierOps(c)) = 26
    /\ BarrierOps(c)[26] = <<"bar_c", 7>>

\* The two slots of each role in the scratchpad, as byte ranges [lo, hi)
SlotBase(op) ==
  CASE op = "x" -> L1_X
    [] op = "y" -> L1_Y
    [] op = "W" -> L1_W
    [] op = "k" -> L1_K
    [] op = "lambda" -> L1_LAMBDA

SlotSize(op) ==
  CASE op = "x" -> X_SLOT
    [] op = "y" -> Y_SLOT
    [] op = "W" -> W_SLOT
    [] op = "k" -> ACT_SLOT
    [] op = "lambda" -> ACT_SLOT

SlotLo(op, n) == SlotBase(op) + n * SlotSize(op)
SlotHi(op, n) == SlotLo(op, n) + SlotSize(op)

Slots == TransferOps \X {0, 1}

\* C18: the ten slots are pairwise disjoint and end before the kernel workspace,
\* and the scratchpad range [loc, loc+size) of every transfer issued so far lies
\* inside one slot of the transfer's own role, so it overlaps no other slot and
\* not the workspace.
C18_TransfersStayInTheirSlot ==
  /\ \A a, b \in Slots :
       a # b => SlotHi(a[1], a[2]) <= SlotLo(b[1], b[2]) \/ SlotHi(b[1], b[2]) <= SlotLo(a[1], a[2])
  /\ \A a \in Slots : SlotHi(a[1], a[2]) <= L1_IM2COL
  /\ \A c \in Cores :
       \A j \in DOMAIN trace[c] :
         LET e == trace[c][j]
         IN e.op \in TransferOps =>
              /\ e.size > 0
              /\ \E n \in {0, 1} :
                   SlotLo(e.op, n) <= e.loc /\ e.loc + e.size <= SlotHi(e.op, n)
              /\ \A b \in Slots :
                   b[1] # e.op =>
                     e.loc + e.size <= SlotLo(b[1], b[2]) \/ SlotHi(b[1], b[2]) <= e.loc
              /\ e.loc + e.size <= L1_IM2COL

C18_Witness ==
  /\ pc[0] = "kernel" /\ iter[0] = 1
  /\ LocsOf(0, "x", 0) = {8192} /\ LocsOf(0, "x", 1) = {0}
  /\ LocsOf(0, "W", 0) = {32776 + 288}
  /\ LocsOf(0, "k", 0) = {33356 + 128}
  /\ LocsOf(0, "lambda", 0) = {33616 + 128}
  /\ LocsOf(0, "y", 0) = {16388}

\* The channel-block index that a k or lambda source address stands for
BlockOf(ext, base) == (ext - base) \div ACT_SLOT

\* C19: every tile coordinate used to address a transfer (input prefetch, weight
\* reload, output write-back, and the 128*_i_nof_load offset of the k and lambda
\* sources) lies inside the grid: channel block in 0..7, height and width index 0.
\* The load coordinate _i_nof_load = 8 of the final iteration addresses nothing.
C19_AddressedTilesInsideGrid ==
  \A c \in Cores :
    \A j \in DOMAIN trace[c] :
      LET e == trace[c][j]
      IN /\ e.op \in TransferOps => e.tile \in Grid /\ e.tile[1] # TILES_NOF
         /\ e.op = "k" =>
              /\ e.ext = L2_K + ACT_SLOT * BlockOf(e.ext, L2_K)
              /\ BlockOf(e.ext, L2_K) \in 0 .. (TILES_NOF - 1)
              /\ BlockOf(e.ext, L2_K) = e.tile[1]
         /\ e.op = "lambda" =>
              /\ e.ext = L2_LAMBDA + ACT_SLOT * BlockOf(e.ext, L2_LAMBDA)
              /\ BlockOf(e.ext, L2_LAMBDA) \in 0 .. (TILES_NOF - 1)
              /\ BlockOf(e.ext, L2_LAMBDA) = e.tile[1]

\* The final iteration: the odometer stands at block 8 and the core is past the
\* guarded prefetch, having addressed blocks 1..7 in the iterations before.
C19_Witness ==
  \E c \in Cores :
    /\ IsLeader(c)
    /\ pc[c] = "wb_wait" /\ iter[c] = N_TILES - 1
    /\ _i_nof_load[c] = TILES_NOF /\ _i_nif_load[c] = TILES_NOF
    /\ CountOf(c, "x", N_TILES - 1) = 0 /\ CountOf(c, "W", N_TILES - 1) = 0
    /\ CountOf(c, "k", N_TILES - 1) = 0
    /\ {e.tile[1] : e \in {trace[c][j] : j \in DOMAIN trace[c]}} = 0 .. (TILES_NOF - 1)
    /\ Len(Sel(c, "y")) = N_TILES

\* C20: the write-back of iteration i reads the output slot that the kernel of
\* iteration i wrote; while the kernel of any core is writing an output slot no
\* write-back of that slot is in flight; and when a core starts the kernel of
\* iteration i+1 the write-back of iteration i has been issued and has completed
\* on every core.
C20_WriteBackReadsComputedSlot ==
  /\ \A c \in Cores :
       \A j \in DOMAIN trace[c] :
         LET e == trace[c][j]
         IN e.op = "y" =>
              /\ LocsOf(c, "kernel", e.iter) = {e.loc}
              /\ e.loc = L1_Y + db_y[c]
  /\ \A c \in Cores :
       pc[c] = "kernel" =>
         /\ \A t \in inflight : t.role = "y" => t.loc # L1_Y + db_y[c]
         /\ iter[c] > 0 =>
              \A c2 \in Cores :
                /\ CountOf(c2, "y", iter[c] - 1) = 1
                /\ CountOf(c2, "wait_y", iter[c] - 1) = 1

C20_Witness ==
  \E c, c2 \in Cores :
    /\ c # c2
    /\ pc[c] = "kernel" /\ iter[c] = 1
    /\ pc[c2] = "kernel_call" /\ iter[c2] = 1
    /\ LocsOf(c, "y", 0) = {L1_Y} /\ LocsOf(c2, "y", 0) = {L1_Y}
    /\ LocsOf(c, "kernel", 1) = {L1_Y}

====
